---- MODULE Spec2Model ----
(***************************************************************************)
(* Verification model of the LendSmart credit-scoring pipeline:            *)
(* EnhancedCreditScoringModel (code/ml_models/src/enhanced_models.py),     *)
(* whose train / predict / save_model / load_model are mirrored line by    *)
(* line by CreditScoringModel (code/credit_risk_models/src/                *)
(* credit_scoring_model.py).                                               *)
(*                                                                         *)
(* A column name is a sequence of words (the parts between underscores of  *)
(* interest); "pattern in col.lower()" is membership of a word that        *)
(* contains the pattern.  A column carries the facts about its values that *)
(* the code branches on: dtype, whether a zero / a negative value occurs,  *)
(* and whether |skew| > 1.0.                                               *)
(***************************************************************************)
EXTENDS Integers, Sequences, FiniteSets, TLC

----------------------------------------------------------------------------
(* Bounds of the model                                                     *)

\* number of method calls explored in one run
MaxCalls == 4

\* live model instances sharing one model directory; Construct replaces an
\* instance by a new one, so any number of instances act one after another
Instances == {1}

\* file paths a caller passes to save_model / load_model
Paths == {"default", "other"}

\* model families explored (model_type configuration key)
ModelTypes == {"rf", "nn", "ensemble"}

\* perform_feature_engineering arguments explored: every caller in the
\* repository leaves the parameter at its default, True
FeatureEngineering == {TRUE}

----------------------------------------------------------------------------
(* Generic helpers                                                         *)

Range(s) == {s[k] : k \in 1..Len(s)}

Take(s, n) == IF Len(s) > n THEN SubSeq(s, 1, n) ELSE s

----------------------------------------------------------------------------
(* Column names and the keyword lists of _identify_feature_types           *)

\* words that contain one of traditional_patterns as a substring
TraditionalWords == {"credit_score", "income", "education_employment"}

\* words that contain one of alternative_patterns as a substring
AlternativeWords == {"transaction", "digital_footprint", "education_employment"}

\* words that contain "score" as a substring
ScoreWords == {"credit_score", "score"}

MatchesTraditional(name) == \E k \in 1..Len(name) : name[k] \in TraditionalWords

MatchesAlternative(name) == \E k \in 1..Len(name) : name[k] \in AlternativeWords

ContainsScore(name) == \E k \in 1..Len(name) : name[k] \in ScoreWords

\* dtype in ["int64", "float64"]
IsFloatOrInt(col) == col.dtype \in {"int64", "float64"}

\* select_dtypes(include=["number"])
IsNumberDtype(col) == col.dtype \in {"int64", "float64"}

\* select_dtypes(include=["object", "category"])
IsObjectDtype(col) == col.dtype \in {"object", "category"}

Column(name, dtype, vals, skewed) ==
    [name |-> name, dtype |-> dtype, vals |-> vals, skewed |-> skewed]

Names(frame) == [k \in 1..Len(frame) |-> frame[k].name]

HasColumn(frame, name) == \E k \in 1..Len(frame) : frame[k].name = name

GetColumn(frame, name) == frame[CHOOSE k \in 1..Len(frame) : frame[k].name = name]

\* X_engineered[name] = values : replaces the column in place, else appends
SetColumn(frame, col) ==
    IF HasColumn(frame, col.name)
    THEN [k \in 1..Len(frame) |-> IF frame[k].name = col.name THEN col ELSE frame[k]]
    ELSE Append(frame, col)

----------------------------------------------------------------------------
(* Datasets the callers pass                                               *)

IncomeCol == Column(<<"income">>, "float64", "pos", TRUE)

TxnScoreCol == Column(<<"transaction", "score">>, "float64", "pos", FALSE)

\* data_sources.py returns browser_type as a string
BrowserCol == Column(<<"browser_type">>, "object", "na", FALSE)

\* data_sources.py returns has_professional_email as a bool
FlagCol == Column(<<"digital_footprint", "has_professional_email">>, "bool", "na", FALSE)

\* rows: "none" (empty), "one" (a single row), "many"; y: the classes of the target
Dataset(id, cols, rows, y) == [id |-> id, cols |-> cols, rows |-> rows, y |-> y]

DataMixed == Dataset("mixed", <<IncomeCol, TxnScoreCol>>, "many", "binary")

DataMixedMulti == Dataset("mixed3", <<IncomeCol, TxnScoreCol>>, "many", "multiclass")

DataMixedSingle == Dataset("mixed1", <<IncomeCol, TxnScoreCol>>, "many", "single")

DataTyped == Dataset("typed", <<IncomeCol, BrowserCol, FlagCol>>, "many", "binary")

DataEmpty == Dataset("empty", <<IncomeCol, TxnScoreCol>>, "none", "binary")

DataRow == Dataset("row", <<IncomeCol, TxnScoreCol>>, "one", "binary")

TrainSets == {DataMixed, DataMixedMulti, DataMixedSingle, DataTyped, DataEmpty}

PredictSets == {DataMixed, DataRow}

----------------------------------------------------------------------------
(* Facts about a column's values that the code branches on.  rows = "none" *)
(* makes every .all() vacuously true; fewer than three rows make .skew()   *)
(* NaN, and abs(NaN) > 1.0 is False.                                       *)

NoZero(col, rows) == rows = "none" \/ col.vals \in {"pos", "neg"}

AllPositive(col, rows) == rows = "none" \/ col.vals = "pos"

AllNonNegative(col, rows) == rows = "none" \/ col.vals \in {"pos", "zero"}

IsSkewed(col, rows) == rows = "many" /\ IsNumberDtype(col) /\ col.skewed

ProductVals(a, b) ==
    IF a.vals = "zero" \/ b.vals = "zero" THEN "zero"
    ELSE IF a.vals = b.vals THEN "pos" ELSE "neg"

InteractionColumn(t, a) ==
    Column(<<"interaction">> \o t.name \o a.name, "float64",
           ProductVals(t, a), t.skewed \/ a.skewed)

RatioColumn(t, a) ==
    Column(<<"ratio">> \o t.name \o <<"to">> \o a.name, "float64",
           ProductVals(t, a), t.skewed \/ a.skewed)

SquaredColumn(c) ==
    Column(c.name \o <<"squared">>, "float64",
           IF c.vals = "zero" THEN "zero" ELSE "pos", c.skewed)

LogColumn(c, rows) ==
    Column(c.name \o <<"log">>, "float64",
           IF AllPositive(c, rows) THEN "neg" ELSE "zero", FALSE)

AggregateColumn(stat, vals) == Column(<<"alt", "data", "score", stat>>, "float64", vals, FALSE)

----------------------------------------------------------------------------
(* EnhancedCreditScoringModel instance state                               *)

\* Python's None
None == [none |-> TRUE]

\* slice bound of trad_subset / alt_subset / important_numeric ([:5])
SubsetLimit == 5

\* config.get("random_state", 42)
DefaultRandomState == 42

\* __init__
NewModel(model_type) ==
    [ model                |-> None,
      preprocessor         |-> None,
      feature_importance   |-> {},
      model_type           |-> model_type,
      random_state         |-> DefaultRandomState,
      traditional_features |-> <<>>,
      alternative_features |-> <<>>,
      categorical_features |-> <<>>,
      numeric_features     |-> <<>>,
      explainer            |-> None ]

\* the four feature-group lists of an instance
Taxonomy(self) ==
    [ traditional_features |-> self.traditional_features,
      alternative_features |-> self.alternative_features,
      categorical_features |-> self.categorical_features,
      numeric_features     |-> self.numeric_features ]

\* _identify_feature_types: first match wins, no match defaults to traditional;
\* categorical / numeric come from the dtypes alone
IsTraditionalColumn(col) ==
    MatchesTraditional(col.name) \/ ~MatchesAlternative(col.name)

IsAlternativeColumn(col) ==
    ~MatchesTraditional(col.name) /\ MatchesAlternative(col.name)

identify_feature_types(self, X) ==
    [self EXCEPT
       !.traditional_features = Names(SelectSeq(X, IsTraditionalColumn)),
       !.alternative_features = Names(SelectSeq(X, IsAlternativeColumn)),
       !.categorical_features = Names(SelectSeq(X, IsObjectDtype)),
       !.numeric_features     = Names(SelectSeq(X, IsNumberDtype))]

----------------------------------------------------------------------------
(* _perform_feature_engineering: works on a copy of X, reading the         *)
(* instance's feature-group lists as they are when it is called            *)

\* X_engineered[col] of a column the frame does not have
KeyError == [error |-> "KeyError"]

Frame(frame) == [error |-> "", frame |-> frame]

\* lines 381-392: the product column, and the ratio when no divisor is zero
WithRatio(frame, rows, t, a) ==
    IF NoZero(a, rows) THEN SetColumn(frame, RatioColumn(t, a)) ELSE frame

AddInteraction(frame, rows, t, a) ==
    WithRatio(SetColumn(frame, InteractionColumn(t, a)), rows, t, a)

RECURSIVE InteractionLoop(_, _, _, _, _, _)
InteractionLoop(frame, rows, trads, alts, ti, ai) ==
    IF ti > Len(trads) THEN frame
    ELSE IF ~(HasColumn(frame, trads[ti]) /\ IsFloatOrInt(GetColumn(frame, trads[ti])))
              \/ ai > Len(alts)
         THEN InteractionLoop(frame, rows, trads, alts, ti + 1, 1)
    ELSE IF HasColumn(frame, alts[ai]) /\ IsFloatOrInt(GetColumn(frame, alts[ai]))
         THEN InteractionLoop(AddInteraction(frame, rows, GetColumn(frame, trads[ti]),
                                             GetColumn(frame, alts[ai])),
                              rows, trads, alts, ti, ai + 1)
    ELSE InteractionLoop(frame, rows, trads, alts, ti, ai + 1)

RECURSIVE SquaredLoop(_, _, _)
SquaredLoop(frame, important, k) ==
    IF k > Len(important) THEN frame
    ELSE SquaredLoop(SetColumn(frame, SquaredColumn(GetColumn(frame, important[k]))),
                     important, k + 1)

AggregateVals(frame, alt_scores) ==
    IF \A k \in 1..Len(alt_scores) : GetColumn(frame, alt_scores[k]).vals = "pos" THEN "pos"
    ELSE IF \E k \in 1..Len(alt_scores) : GetColumn(frame, alt_scores[k]).vals = "neg" THEN "neg"
    ELSE "zero"

AggregatesOf(frame, v) ==
    SetColumn(SetColumn(SetColumn(SetColumn(frame,
        AggregateColumn("mean", v)), AggregateColumn("min", v)),
        AggregateColumn("max", v)), AggregateColumn("range", "zero"))

AddAggregates(frame, alt_scores) == AggregatesOf(frame, AggregateVals(frame, alt_scores))

RECURSIVE LogLoop(_, _, _, _)
LogLoop(frame, rows, skewed_features, k) ==
    IF k > Len(skewed_features) THEN frame
    ELSE IF AllNonNegative(GetColumn(frame, skewed_features[k]), rows)
         THEN LogLoop(SetColumn(frame, LogColumn(GetColumn(frame, skewed_features[k]), rows)),
                      rows, skewed_features, k + 1)
    ELSE LogLoop(frame, rows, skewed_features, k + 1)

\* lines 361-392: interactions and ratios of the first traditional and
\* alternative features
Interactions(self, X, rows) ==
    IF self.traditional_features # <<>> /\ self.alternative_features # <<>>
    THEN InteractionLoop(X, rows, Take(self.traditional_features, SubsetLimit),
                         Take(self.alternative_features, SubsetLimit), 1, 1)
    ELSE X

\* lines 395-403: squares of the numeric "score" columns of the frame
ImportantNumeric(self, frame) ==
    SelectSeq(Names(frame),
              LAMBDA n : n \in Range(self.numeric_features) /\ ContainsScore(n))

Squares(self, frame) ==
    SquaredLoop(frame, Take(ImportantNumeric(self, frame), SubsetLimit), 1)

\* lines 406-427: the alternative "score" features are looked up in the frame
\* (KeyError when one is not a column of it) and, when numeric, aggregated
ScoredAlternatives(self) == SelectSeq(self.alternative_features, ContainsScore)

AltScores(self, frame) ==
    SelectSeq(ScoredAlternatives(self), LAMBDA n : IsFloatOrInt(GetColumn(frame, n)))

Aggregates(self, frame) ==
    IF Len(self.alternative_features) <= 1 THEN Frame(frame)
    ELSE IF \E n \in Range(ScoredAlternatives(self)) : ~HasColumn(frame, n) THEN KeyError
    ELSE IF AltScores(self, frame) # <<>>
         THEN Frame(AddAggregates(frame, AltScores(self, frame)))
    ELSE Frame(frame)

\* lines 430-443: log transforms of the skewed numeric features
SkewedFeatures(self, frame, rows) ==
    SelectSeq(self.numeric_features,
              LAMBDA n : HasColumn(frame, n) /\ IsSkewed(GetColumn(frame, n), rows))

LogTransforms(self, r, rows) ==
    IF r = KeyError THEN KeyError
    ELSE Frame(LogLoop(r.frame, rows, SkewedFeatures(self, r.frame, rows), 1))

\* the frame returned for dataset columns X with the given rows, or KeyError
perform_feature_engineering(self, X, rows) ==
    LogTransforms(self, Aggregates(self, Squares(self, Interactions(self, X, rows))), rows)

\* "if perform_feature_engineering: X = self._perform_feature_engineering(X)"
Engineer(self, d, fe) ==
    IF fe THEN perform_feature_engineering(self, d.cols, d.rows) ELSE Frame(d.cols)

----------------------------------------------------------------------------
(* Pipeline construction and the library calls train makes                 *)

\* _create_preprocessor: derives the taxonomy of X, then builds the unfit
\* ColumnTransformer over numeric_features and categorical_features
Plan(self, fitted) ==
    [num |-> self.numeric_features, cat |-> self.categorical_features, fitted |-> fitted]

WithPlan(self, fitted) == [self EXCEPT !.preprocessor = Plan(self, fitted)]

create_preprocessor(self, X) == WithPlan(identify_feature_types(self, X), FALSE)

\* param_grid is non-empty for the single-estimator families only
HasParamGrid(model_type) == model_type \in {"rf", "gb", "xgb", "lgb", "nn"}

\* hasattr(classifier, "feature_importances_")
HasFeatureImportances(model_type) == model_type \in {"rf", "gb", "xgb", "lgb"}

\* the voting / stacking committees hold a GradientBoostingClassifier
HasGradientBoosting(model_type) == model_type \notin {"rf", "xgb", "lgb", "nn"}

\* train_test_split(X, y, test_size=0.2, stratify=y) rejects a split whose
\* train part would be empty
SplitRaises(rows) == rows \in {"none", "one"}

\* pipeline.fit / grid_search.fit: no column to fit on, or a single-class
\* target given to gradient boosting
FitRaises(self, y) ==
    \/ self.numeric_features = <<>> /\ self.categorical_features = <<>>
    \/ y = "single" /\ HasGradientBoosting(self.model_type)

\* the fitted pipeline: the plan fit on the training part and the classifier
Pipeline(self, d) ==
    [ num          |-> self.numeric_features,
      cat          |-> self.categorical_features,
      data         |-> d.id,
      y            |-> d.y,
      model_type   |-> self.model_type,
      random_state |-> self.random_state ]

\* predict_proba(X)[:, 1] of a forest fit on one class has no column 1
ProbaRaises(model) == model.y = "single" /\ model.model_type = "rf"

\* precision_score(average="binary") rejects a multiclass target; roc_auc_score
\* on a single-class y_val raises or returns nan with a warning, by library version
MetricsOutcomes(y) ==
    CASE y = "binary"     -> {"ok"}
      [] y = "multiclass" -> {"raise"}
      [] OTHER            -> {"raise", "ok"}

\* _extract_feature_importance: entries are written into the existing map
FeatureNames(model) == Range(model.num) \cup Range(model.cat)

Importance(model) == <<model.data, Cardinality(FeatureNames(model))>>

extract_feature_importance(self) ==
    IF self.model = None \/ ~HasFeatureImportances(self.model.model_type) THEN self
    ELSE [self EXCEPT !.feature_importance =
             {e \in @ : e.feature \notin FeatureNames(self.model)} \cup
             {[feature |-> n, importance |-> Importance(self.model)] :
                 n \in FeatureNames(self.model)}]

\* _create_explainer: any failure is logged and leaves self.explainer as it was
Explainer(self) ==
    [ kind  |-> IF self.model_type \in {"rf", "gb", "xgb", "lgb"} THEN "tree" ELSE "kernel",
      model |-> self.model ]

create_explainer(self, fails) ==
    IF self.model = None \/ fails THEN self
    ELSE [self EXCEPT !.explainer = Explainer(self)]

----------------------------------------------------------------------------
(* train, as one call: the instance it leaves and how it ended             *)

Call(self, outcome, error, result) ==
    [self |-> self, outcome |-> outcome, error |-> error, result |-> result]

Raised(self, error) == Call(self, "raised", error, None)

Returned(self, result) == Call(self, "returned", "", result)

\* the held-out metrics: a function of the fitted pipeline and the validation part
Metrics(model, d) == [pipeline |-> model, validation |-> d.id]

\* lines 550-580, after self.model is assigned
Validate(self, d, metrics, explainer_fails) ==
    IF ProbaRaises(self.model) THEN Raised(self, "IndexError")
    ELSE IF metrics = "raise" THEN Raised(self, "ValueError")
    ELSE Returned(create_explainer(extract_feature_importance(self), explainer_fails),
                  Metrics(self.model, d))

\* lines 527-548: self.model is assigned the fitted pipeline; without a
\* parameter grid the pipeline that is fit holds self.preprocessor itself
Fit(self, d) ==
    [WithPlan(self, ~HasParamGrid(self.model_type)) EXCEPT !.model = Pipeline(self, d)]

\* lines 468-548, self being the instance after _create_preprocessor
SplitAndFit(self, d, metrics, explainer_fails) ==
    IF SplitRaises(d.rows) THEN Raised(self, "ValueError")
    ELSE IF FitRaises(self, d.y) THEN Raised(self, "ValueError")
    ELSE Validate(Fit(self, d), d, metrics, explainer_fails)

\* train on the engineered frame X
TrainOn(self, d, X, metrics, explainer_fails) ==
    IF X = KeyError THEN Raised(self, "KeyError")
    ELSE SplitAndFit(create_preprocessor(self, X.frame), d, metrics, explainer_fails)

train(self, d, fe, metrics, explainer_fails) ==
    TrainOn(self, d, Engineer(self, d, fe), metrics, explainer_fails)

----------------------------------------------------------------------------
(* predict and predict_with_explanation                                    *)

\* ColumnTransformer.transform needs every fitted column, by name
MissingColumns(model, X) == ~(FeatureNames(model) \subseteq Range(Names(X)))

\* model.predict_proba(X)[:, 1]
predict_proba(model, X, d) ==
    IF d.rows = "none" \/ MissingColumns(model, X) THEN [error |-> "ValueError"]
    ELSE IF ProbaRaises(model) THEN [error |-> "IndexError"]
    ELSE [error |-> "", pipeline |-> model, rows |-> d.id]

\* return y_prob, or the error predict_proba raised
Probabilities(self, y_prob) ==
    IF y_prob.error # "" THEN Raised(self, y_prob.error) ELSE Returned(self, y_prob)

\* lines 682-688, X being the engineered frame
PredictOn(self, d, X) ==
    IF X = KeyError THEN Raised(self, "KeyError")
    ELSE Probabilities(self, predict_proba(self.model, X.frame, d))

predict(self, d, fe) ==
    IF self.model = None THEN Raised(self, "NotTrained")
    ELSE PredictOn(self, d, Engineer(self, d, fe))

\* explanations: {} when there is no explainer or shap raises
\* explainer.shap_values(X_processed) of an explainer built on another
\* classifier: the classifier rejects a row of another width
CategoryLevels == 4

\* columns the fitted preprocessor puts out: one per numeric feature, one per
\* level (the browser names of data_sources.py) of a one-hot encoded feature
Width(model) == Len(model.num) + CategoryLevels * Len(model.cat)

WidthDiffers(self) == Width(self.explainer.model) # Width(self.model)

Explained(self, p, shap_fails) ==
    IF p.outcome = "raised" THEN p
    ELSE IF self.explainer = None \/ shap_fails \/ WidthDiffers(self)
         THEN Returned(self, [y_prob |-> p.result, explanations |-> None])
    ELSE Returned(self, [y_prob |-> p.result, explanations |-> self.explainer])

predict_with_explanation(self, d, fe, shap_fails) ==
    Explained(self, predict(self, d, fe), shap_fails)

----------------------------------------------------------------------------
(* save_model / load_model and the files they touch                        *)

\* model_data, the dictionary handed to joblib.dump
Bundle(self) ==
    [ model                |-> self.model,
      feature_importance   |-> self.feature_importance,
      traditional_features |-> self.traditional_features,
      alternative_features |-> self.alternative_features,
      categorical_features |-> self.categorical_features,
      numeric_features     |-> self.numeric_features,
      model_type           |-> self.model_type ]

\* a file on disk: what was dumped, whether the write reached its end, and
\* (history only) the instance that wrote it
File(complete, data, saver) == [complete |-> complete, data |-> data, saver |-> saver]

\* os.path.exists
Exists(file) == file # None

\* variant: a part-written file is read as if it were whole
JoblibLoadRaises_Lenient(file) == FALSE

\* joblib.load raises on a file whose write stopped part-way
JoblibLoadRaises(file) == ~file.complete

Disk(fs, ef) == [files |-> fs, explainer_file |-> ef]

\* stop: "none", or the dump that fails part-way ("bundle", "explainer")
save_model(self, disk, path, stop) ==
    LET bundle_file == File(stop # "bundle", Bundle(self), self)
        files1 == [disk.files EXCEPT ![path] = bundle_file]
        explainer_file1 == File(stop # "explainer", self.explainer, self)
    IN  IF self.model = None THEN [disk |-> disk, outcome |-> "returned", error |-> ""]
        ELSE IF stop = "bundle"
             THEN [disk |-> Disk(files1, disk.explainer_file),
                   outcome |-> "raised", error |-> "OSError"]
        ELSE IF self.explainer = None
             THEN [disk |-> Disk(files1, disk.explainer_file),
                   outcome |-> "returned", error |-> ""]
        ELSE [disk |-> Disk(files1, explainer_file1),
              outcome |-> IF stop = "explainer" THEN "raised" ELSE "returned",
              error   |-> IF stop = "explainer" THEN "OSError" ELSE ""]

\* variant: the pipeline is not taken from the bundle
RestoreBundle_WithoutModel(self, model_data) ==
    [self EXCEPT
       !.feature_importance   = model_data.feature_importance,
       !.traditional_features = model_data.traditional_features,
       !.alternative_features = model_data.alternative_features,
       !.categorical_features = model_data.categorical_features,
       !.numeric_features     = model_data.numeric_features,
       !.model_type           = model_data.model_type]

\* the assignments of lines 823-829
RestoreBundle(self, model_data) ==
    [self EXCEPT
       !.model                = model_data.model,
       !.feature_importance   = model_data.feature_importance,
       !.traditional_features = model_data.traditional_features,
       !.alternative_features = model_data.alternative_features,
       !.categorical_features = model_data.categorical_features,
       !.numeric_features     = model_data.numeric_features,
       !.model_type           = model_data.model_type]

\* lines 834-839; a failing joblib.load is caught by the enclosing except
RestoreExplainer(self, explainer_file) ==
    IF Exists(explainer_file) /\ ~JoblibLoadRaises(explainer_file)
    THEN [self EXCEPT !.explainer = explainer_file.data]
    ELSE self

\* variant: no os.path.exists guard, joblib.load of a missing file raises
load_model_Unguarded(self, disk, path) ==
    LET file == disk.files[path]
    IN  IF ~Exists(file) THEN Raised(self, "FileNotFoundError")
        ELSE IF JoblibLoadRaises(file) THEN Returned(self, None)
        ELSE Returned(RestoreExplainer(RestoreBundle(self, file.data), disk.explainer_file),
                      file.data)

load_model(self, disk, path) ==
    LET file == disk.files[path]
    IN  IF ~Exists(file) THEN Returned(self, None)
        ELSE IF JoblibLoadRaises(file) THEN Returned(self, None)
        ELSE Returned(RestoreExplainer(RestoreBundle(self, file.data), disk.explainer_file),
                      file.data)

----------------------------------------------------------------------------
(* The state machine: callers invoke the public methods one at a time      *)

VARIABLES
    models,          \* the EnhancedCreditScoringModel instances
    files,           \* path -> bundle file
    explainer_file,  \* model_dir/enhanced_credit_explainer.joblib
    calls,           \* calls made so far
    last,            \* history: the call that just ended
    completed,       \* history: a train returned, or a load restored a bundle
    good,            \* history: pipeline of the latest train that returned / load that restored
    seen             \* history: result of the first train that returned, by input

vars == <<models, files, explainer_file, calls, last, completed, good, seen>>

\* the other components of the repository, each exercised on its own
VARIABLES
    conversion,      \* the last calculate_credit_score call: its input and result
    aggregator,      \* the AlternativeDataScoreAggregator and its four scorers
    scoring,         \* the last score / aggregate_score call: its inputs and result
    risk_models,     \* the LoanRiskModel instances: the model each one holds
    risk_files,      \* path -> what save_model of a LoanRiskModel dumped there
    risk_last,       \* the last LoanRiskModel call: its instance and outcome
    framework,       \* the ComplianceFramework: its registered checks
    checked,         \* the last run_all_checks call: its envelope and results
    system,          \* the EnhancedLendingSystem: its integrator and traditional model
    processed        \* the last train_models / process_loan_application call

riskVars == <<risk_models, risk_files, risk_last>>

complianceVars == <<framework, checked>>

lendingVars == <<system, processed>>

others == <<conversion, aggregator, scoring, riskVars, complianceVars, lendingVars>>

RiskIdle == risk_models = None /\ risk_files = None /\ risk_last = None

ComplianceIdle == framework = None /\ checked = None

LendingIdle == system = None /\ processed = None

\* no call of another component has been made
OthersIdle ==
    /\ conversion = None /\ aggregator = None /\ scoring = None
    /\ RiskIdle /\ ComplianceIdle /\ LendingIdle

\* what the caller observes of one call, with the instance as it was before
Last(op, i, d, fe, path, c, before, file_was, frame) ==
    [ op |-> op, i |-> i, data |-> d, fe |-> fe, path |-> path,
      outcome |-> c.outcome, error |-> c.error, result |-> c.result,
      before |-> before, file_was |-> file_was, frame |-> frame,
      explainer_failed |-> FALSE ]

NoCall == Call(None, "returned", "", None)

\* the input of a train call that decides its result
TrainKey(self, d, fe) == <<d.id, fe, self.model_type, self.random_state>>

TrainKeys ==
    {<<d.id, fe, mt, DefaultRandomState>> :
        d \in TrainSets, fe \in FeatureEngineering, mt \in ModelTypes}

\* the fixed single test row scored after a train
TestRow == DataRow

\* held-out metrics of a train and the prediction it gives for the test row
TrainResult(c) ==
    [metrics |-> c.result, test_row |-> predict(c.self, TestRow, TRUE)]

\* the frame a call hands to the pipeline (column names)
FrameNames(X) == IF X = KeyError THEN <<>> ELSE Names(X.frame)

EngineeredNames(self, d, fe) == FrameNames(Engineer(self, d, fe))

Init ==
    /\ models \in [Instances -> {NewModel(mt) : mt \in ModelTypes}]
    /\ files = [p \in Paths |-> None]
    /\ explainer_file = None
    /\ calls = 0
    /\ last = Last("init", 0, "", FALSE, "", NoCall, None, None, <<>>)
    /\ completed = [i \in Instances |-> FALSE]
    /\ good = [i \in Instances |-> None]
    /\ seen = [k \in TrainKeys |-> None]
    /\ OthersIdle

\* EnhancedCreditScoringModel(config): a new instance takes the place of i
Construct(i, model_type) ==
    /\ calls < MaxCalls
    /\ calls' = calls + 1
    /\ models' = [models EXCEPT ![i] = NewModel(model_type)]
    /\ last' = Last("init", i, "", FALSE, "", NoCall, models[i], None, <<>>)
    /\ completed' = [completed EXCEPT ![i] = FALSE]
    /\ good' = [good EXCEPT ![i] = None]
    /\ UNCHANGED <<files, explainer_file, seen, others>>

Train(i, d, fe, metrics, explainer_fails) ==
    \E self \in {models[i]} :
      \E c \in {train(self, d, fe, metrics, explainer_fails)}, k \in {TrainKey(self, d, fe)} :
        /\ calls < MaxCalls
        /\ calls' = calls + 1
        /\ models' = [models EXCEPT ![i] = c.self]
        /\ last' = [Last("train", i, d.id, fe, "", c, self, None, EngineeredNames(self, d, fe))
                       EXCEPT !.explainer_failed = c.outcome = "returned" /\ explainer_fails]
        /\ completed' = [completed EXCEPT ![i] = @ \/ c.outcome = "returned"]
        /\ good' = [good EXCEPT ![i] = IF c.outcome = "returned" THEN c.self.model ELSE @]
        /\ seen' = IF c.outcome = "returned" /\ seen[k] = None
                   THEN [seen EXCEPT ![k] = TrainResult(c)]
                   ELSE seen
        /\ UNCHANGED <<files, explainer_file, others>>

Predict(i, d, fe) ==
    \E self \in {models[i]} :
      \E c \in {predict(self, d, fe)} :
        /\ calls < MaxCalls
        /\ calls' = calls + 1
        /\ last' = Last("predict", i, d.id, fe, "", c, self, None, EngineeredNames(self, d, fe))
        /\ UNCHANGED <<models, files, explainer_file, completed, good, seen, others>>

PredictWithExplanation(i, d, fe, shap_fails) ==
    \E self \in {models[i]} :
      \E c \in {predict_with_explanation(self, d, fe, shap_fails)} :
        /\ calls < MaxCalls
        /\ calls' = calls + 1
        /\ last' = Last("predict_with_explanation", i, d.id, fe, "", c, self, None,
                        EngineeredNames(self, d, fe))
        /\ UNCHANGED <<models, files, explainer_file, completed, good, seen, others>>

SaveModel(i, path, stop) ==
    \E self \in {models[i]} :
      \E r \in {save_model(self, Disk(files, explainer_file), path, stop)} :
        /\ calls < MaxCalls
        /\ calls' = calls + 1
        /\ files' = r.disk.files
        /\ explainer_file' = r.disk.explainer_file
        /\ last' = Last("save_model", i, "", FALSE, path,
                        Call(self, r.outcome, r.error, None), self, files[path], <<>>)
        /\ UNCHANGED <<models, completed, good, seen, others>>

LoadModel(i, path) ==
    \E self \in {models[i]} :
      \E c \in {load_model(self, Disk(files, explainer_file), path)} :
        /\ calls < MaxCalls
        /\ calls' = calls + 1
        /\ models' = [models EXCEPT ![i] = c.self]
        /\ last' = Last("load_model", i, "", FALSE, path, c, self, files[path], <<>>)
        /\ completed' = [completed EXCEPT ![i] = @ \/ c.result # None]
        /\ good' = [good EXCEPT ![i] = IF c.result # None THEN c.self.model ELSE @]
        /\ UNCHANGED <<files, explainer_file, seen, others>>

Next ==
    \/ \E i \in Instances, mt \in ModelTypes : Construct(i, mt)
    \/ \E i \in Instances, d \in TrainSets, fe \in FeatureEngineering, e \in BOOLEAN :
         \E m \in MetricsOutcomes(d.y) : Train(i, d, fe, m, e)
    \/ \E i \in Instances, d \in PredictSets, fe \in FeatureEngineering : Predict(i, d, fe)
    \/ \E i \in Instances, d \in PredictSets, fe \in FeatureEngineering, f \in BOOLEAN :
         PredictWithExplanation(i, d, fe, f)
    \/ \E i \in Instances, p \in Paths, stop \in {"none", "bundle", "explainer"} :
         SaveModel(i, p, stop)
    \/ \E i \in Instances, p \in Paths : LoadModel(i, p)

Spec == Init /\ [][Next]_vars

----------------------------------------------------------------------------
(* Properties                                                              *)

AllSets == TrainSets \cup PredictSets

ById(id) == CHOOSE d \in AllSets : d.id = id

IsPredictCall == last.op \in {"predict", "predict_with_explanation"}

IsFresh(self) == \E mt \in ModelTypes : self = NewModel(mt)

\* what a caller sees of a prediction
Seen(c) == [outcome |-> c.outcome, error |-> c.error, result |-> c.result]

\* C1: on an instance on which no train call has completed and no load has
\* restored a bundle, predict and predict_with_explanation raise the
\* model-not-trained error for every input.
C1_UntrainedPredictRaises ==
    \A i \in Instances, d \in PredictSets :
        ~completed[i] =>
            /\ predict(models[i], d, TRUE).error = "NotTrained"
            /\ predict_with_explanation(models[i], d, TRUE, FALSE).error = "NotTrained"

\* C2: save_model on an instance that was never trained or loaded raises.
C2_SaveUntrainedRaises ==
    (last.op = "save_model" /\ last.before.model = None /\ ~completed[last.i])
        => last.outcome = "raised"

\* C3: a load either leaves the instance as it was, or restores the pipeline,
\* feature-importance map, taxonomy and family key of one file whose write
\* reached its end, all as one save put them there.
C3_LoadAtomic ==
    last.op = "load_model" =>
        \/ models[last.i] = last.before
        \/ /\ Exists(last.file_was)
           /\ last.file_was.complete
           /\ Bundle(models[last.i]) = last.file_was.data
           /\ last.file_was.data = Bundle(last.file_was.saver)

\* a load restored a whole bundle while another path holds a part-written file
C3_Witness ==
    /\ last.op = "load_model"
    /\ last.result # None
    /\ Bundle(models[last.i]) = last.file_was.data
    /\ \E p \in Paths : Exists(files[p]) /\ ~files[p].complete

\* C4: after loading a saved bundle into a fresh instance, every input gets
\* the prediction the saving instance gave when it saved.
C4_SaveLoadSamePredictions ==
    (last.op = "load_model" /\ IsFresh(last.before) /\ last.result # None) =>
        \A d \in PredictSets, fe \in BOOLEAN :
            Seen(predict(models[last.i], d, fe)) = Seen(predict(last.file_was.saver, d, fe))

\* a fresh instance loaded a bundle and returns a probability for the test row
C4_Witness ==
    /\ last.op = "load_model"
    /\ IsFresh(last.before)
    /\ last.result # None
    /\ predict(models[last.i], TestRow, TRUE).outcome = "returned"

\* C5: load_model of a path with no file returns and changes nothing; an
\* untrained instance still raises not-trained on predict afterwards.
C5_LoadMissingFile ==
    (last.op = "load_model" /\ ~Exists(last.file_was)) =>
        /\ last.outcome = "returned"
        /\ models[last.i] = last.before
        /\ last.before.model = None =>
              \A d \in PredictSets : predict(models[last.i], d, TRUE).error = "NotTrained"

\* an untrained instance was asked to load a path that has no file
C5_Witness ==
    /\ last.op = "load_model"
    /\ ~Exists(last.file_was)
    /\ last.before.model = None

\* C6: a prediction call changes nothing of the instance, and the pipeline it
\* applies is the one of the latest train that returned or load that restored.
C6_PlanFromLatestSuccessfulTrain ==
    IsPredictCall =>
        /\ models[last.i] = last.before
        /\ last.outcome = "returned" => models[last.i].model = good[last.i]

\* C7: the feature engineering of a train or predict call works with the
\* taxonomy of that call's input dataset.
C7_EngineeringUsesCallTaxonomy ==
    ((last.op = "train" \/ (IsPredictCall /\ last.before.model # None)) /\ last.fe) =>
        LET d == ById(last.data)
        IN  last.frame = EngineeredNames(identify_feature_types(last.before, d.cols), d, TRUE)

\* C8: a train call that returns gives the held-out metrics and the test-row
\* prediction of every other train call with the same data, configuration and seed.
C8_TrainDeterministic ==
    (last.op = "train" /\ last.outcome = "returned") =>
        LET k == TrainKey(last.before, ById(last.data), last.fe)
        IN  seen[k] = [metrics  |-> last.result,
                       test_row |-> predict(models[last.i], TestRow, TRUE)]

\* C9: train raises whenever y is not binary or X is empty.
C9_TrainRejectsBadInput ==
    (last.op = "train" /\ (ById(last.data).y # "binary" \/ ById(last.data).rows = "none"))
        => last.outcome = "raised"

\* C10: once the taxonomy of a frame is derived, each of its columns is in
\* exactly one of traditional-numeric, traditional-categorical,
\* alternative-numeric, alternative-categorical.
FourSets(self) ==
    << Range(self.traditional_features) \cap Range(self.numeric_features),
       Range(self.traditional_features) \cap Range(self.categorical_features),
       Range(self.alternative_features) \cap Range(self.numeric_features),
       Range(self.alternative_features) \cap Range(self.categorical_features) >>

C10_TaxonomyPartition ==
    (last.op = "train" /\ last.error # "KeyError") =>
        \A n \in Range(last.frame) :
            Cardinality({k \in 1..4 : n \in FourSets(models[last.i])[k]}) = 1

\* a second pass of feature engineering over the frame r the first pass returned
SecondPass(self, r, rows) ==
    IF r = KeyError THEN KeyError ELSE perform_feature_engineering(self, r.frame, rows)

\* the second pass kept the column count and every column of the first pass
SamePass(r1, r2) ==
    /\ r2 # KeyError
    /\ Len(r2.frame) = Len(r1.frame)
    /\ \A k \in 1..Len(r1.frame) :
          /\ HasColumn(r2.frame, r1.frame[k].name)
          /\ GetColumn(r2.frame, r1.frame[k].name) = r1.frame[k]

Idempotent(self, r1, rows) == r1 # KeyError => SamePass(r1, SecondPass(self, r1, rows))

\* C11: feature engineering run on its own output leaves the derived columns
\* as they are and adds no column, whatever taxonomy the instance holds.
C11_EngineeringIdempotent ==
    \A i \in Instances, d \in PredictSets :
        Idempotent(models[i], perform_feature_engineering(models[i], d.cols, d.rows), d.rows)

\* C12: after a train call in which the explainer could not be built, the
\* model is trained, and predict_with_explanation returns whenever predict
\* does, with an empty explanation payload.
C12_ExplainerFailureDegrades ==
    (last.op = "train" /\ last.explainer_failed) =>
        /\ models[last.i].model # None
        /\ \A d \in PredictSets, f \in BOOLEAN :
              /\ predict_with_explanation(models[last.i], d, TRUE, f).outcome
                    = predict(models[last.i], d, TRUE).outcome
              /\ predict(models[last.i], d, TRUE).outcome = "returned" =>
                    predict_with_explanation(models[last.i], d, TRUE, f).result.explanations = None

\* the explainer could not be built and a later explanation call returned
C12_Witness ==
    /\ last.op = "train"
    /\ last.explainer_failed
    /\ \E d \in PredictSets :
          predict_with_explanation(models[last.i], d, TRUE, FALSE).outcome = "returned"

----------------------------------------------------------------------------
(* calculate_credit_score, the score converter.  A probability is the      *)
(* fraction k / ProbSteps, given by its numerator k; the arithmetic is      *)
(* exact over these fractions.                                             *)

\* probabilities explored: k / ProbSteps
ProbSteps == 200

\* numerators explored below 0 and above ProbSteps (probabilities outside [0,1])
ProbOver == 20

DefaultProbs == (0 - ProbOver)..(ProbSteps + ProbOver)

UnitInterval == 0..ProbSteps

MinScore == 300

MaxScore == 850

ScoreSpan == 550

\* int(n / d): the fraction cut towards zero
Truncate(n, d) == IF n >= 0 THEN n \div d ELSE 0 - ((0 - n) \div d)

Min(a, b) == IF a <= b THEN a ELSE b

Max(a, b) == IF a >= b THEN a ELSE b

\* variant: the score is returned as computed
Clamp_Unbounded(score) == score

\* max(300, min(850, score))
Clamp(score) == Max(MinScore, Min(MaxScore, score))

\* variant: the score rises with the probability
calculate_credit_score_Rising(k) ==
    Clamp(Truncate(MinScore * ProbSteps + k * ScoreSpan, ProbSteps))

\* score = int(850 - (default_prob * 550)); return max(300, min(850, score))
calculate_credit_score(k) == Clamp(Truncate(MaxScore * ProbSteps - k * ScoreSpan, ProbSteps))

\* the state of the instance plays no part in the conversion
ModelIdle ==
    /\ models = [i \in Instances |-> NewModel("rf")]
    /\ files = [p \in Paths |-> None]
    /\ explainer_file = None
    /\ calls = 0
    /\ last = Last("init", 0, "", FALSE, "", NoCall, None, None, <<>>)
    /\ completed = [i \in Instances |-> FALSE]
    /\ good = [i \in Instances |-> None]
    /\ seen = [k \in TrainKeys |-> None]

ScoreInit == ModelIdle /\ OthersIdle

CalculateCreditScore(k) ==
    /\ conversion' = [default_prob |-> k, score |-> calculate_credit_score(k)]
    /\ UNCHANGED <<vars, aggregator, scoring, riskVars, complianceVars, lendingVars>>

ScoreNext == \E k \in DefaultProbs : CalculateCreditScore(k)

ScoreSpec == ScoreInit /\ [][ScoreNext]_<<vars, others>>

\* round(n / d), ties to the even neighbour as Python rounds
Round(n, d) ==
    IF 2 * (n % d) > d \/ (2 * (n % d) = d /\ (n \div d) % 2 = 1)
    THEN (n \div d) + 1
    ELSE n \div d

Converted == conversion # None

\* C13: for a probability in [0,1] the score is clamp(round(850 - 550 p), 300, 850).
C13_ScoreIsRounded ==
    (Converted /\ conversion.default_prob \in UnitInterval) =>
        conversion.score =
            Clamp(Round(MaxScore * ProbSteps - conversion.default_prob * ScoreSpan, ProbSteps))

\* C14: every score the converter returns is between 300 and 850.
C14_ScoreBounded ==
    Converted => (MinScore <= conversion.score /\ conversion.score <= MaxScore)

\* a probability strictly inside (0,1) was converted to a score strictly inside the range
C14_Witness ==
    /\ Converted
    /\ conversion.default_prob \in 1..(ProbSteps - 1)
    /\ conversion.score \in (MinScore + 1)..(MaxScore - 1)

\* C15: a probability at least as large gets a score at most as large.
C15_ScoreMonotone ==
    Converted =>
        \A k \in DefaultProbs :
            conversion.default_prob <= k => calculate_credit_score(k) <= conversion.score

\* two different probabilities were given different scores
C15_Witness ==
    /\ Converted
    /\ \E k \in UnitInterval :
          /\ conversion.default_prob < k
          /\ calculate_credit_score(k) < conversion.score

----------------------------------------------------------------------------
(* scoring.py: the four category scorers.  A number between 0 and 1 is     *)
(* kept in hundredths (1.0 is 100), a score in hundredths of a point (50.0  *)
(* is 5000); day, month and account counts are plain integers.  A row is a  *)
(* function from its column names <<category, feature>> to values.          *)

\* 1.0 in hundredths; also the factor of "final_score = normalized_score * 100"
Hundred == 100

\* 50.0, the neutral score
NeutralScore == 5000

Categories == {"digital_footprint", "transaction", "utility_payment", "education_employment"}

RECURSIVE Sum(_, _)
Sum(f, S) ==
    IF S = {} THEN 0
    ELSE LET x == CHOOSE x \in S : TRUE IN f[x] + Sum(f, S \ {x})

\* np.clip(v, 0, 1)
Clip01(v) == Max(0, Min(Hundred, v))

\* the default weights of the scorers' __init__
DigitalWeights ==
    "email_domain_age_days" :> 10 @@ "email_account_age_days" :> 15 @@
    "device_age_months" :> 5 @@ "social_media_accounts" :> 10 @@
    "social_media_followers" :> 5 @@ "digital_subscription_count" :> 10 @@
    "has_professional_email" :> 15 @@ "device_price_category_score" :> 10 @@
    "typical_online_hours_score" :> 5 @@ "typical_geolocation_stability" :> 15

TransactionWeights ==
    "income_stability" :> 20 @@ "expense_to_income_ratio" :> 15 @@
    "debt_service_ratio" :> 15 @@ "savings_rate" :> 10 @@
    "late_payment_frequency" :> 10 @@ "overdraft_frequency" :> 10 @@
    "cash_buffer_months" :> 10 @@ "recurring_bill_payment_consistency" :> 10

UtilityWeights ==
    "overall_utility_payment_consistency" :> 30 @@ "utility_missed_payments_count" :> 20 @@
    "avg_days_late_when_late" :> 15 @@ "utility_payment_trend_score" :> 15 @@
    "utility_history_length_months" :> 10 @@ "utility_accounts_count" :> 10

EducationWeights ==
    "education_level_score" :> 15 @@ "employment_years" :> 20 @@
    "job_stability_score" :> 20 @@ "industry_stability" :> 10 @@
    "job_level_score" :> 15 @@ "company_size_score" :> 5 @@
    "career_growth_trajectory" :> 10 @@ "skill_demand_score" :> 5

DefaultWeights(category) ==
    CASE category = "digital_footprint"    -> DigitalWeights
      [] category = "transaction"          -> TransactionWeights
      [] category = "utility_payment"      -> UtilityWeights
      [] category = "education_employment" -> EducationWeights

\* a scorer: its category, config weights and trained model (None when untrained)
Scorer(category, weights, model) == [category |-> category, weights |-> weights, model |-> model]

\* a frame without columns
NoColumns == [f \in {} |-> 0]

\* the columns of the row that start with the category prefix, prefix removed;
\* a row is kept as its columns grouped by prefix
CategoryColumns(category, data) ==
    IF category \in DOMAIN data THEN data[category] ELSE NoColumns

Has(cols, f) == f \in DOMAIN cols

\* column f added (or replaced) with value v
WithColumn(cols, f, v) == [g \in DOMAIN cols \cup {f} |-> IF g = f THEN v ELSE cols[g]]

\* a / b of two numbers in hundredths
Div(a, b) == (a * Hundred) \div b

\* 1 - column
Inverse(cols, f) == IF Has(cols, f) THEN [cols EXCEPT ![f] = Hundred - @] ELSE cols

\* 1 - column.clip(0, 1)
InverseClipped(cols, f) ==
    IF Has(cols, f) THEN [cols EXCEPT ![f] = Hundred - Clip01(@)] ELSE cols

\* TransactionDataScorer.preprocess_features
TransactionPreprocess(cols) ==
    InverseClipped(Inverse(Inverse(cols, "late_payment_frequency"), "overdraft_frequency"),
                   "expense_to_income_ratio")

\* months of history the missed payments are spread over: 24 when not known
HistoryLength(cols) ==
    IF Has(cols, "utility_history_length_months") /\ cols["utility_history_length_months"] > 0
    THEN cols["utility_history_length_months"]
    ELSE 24 * Hundred

MissedPaymentRate(cols) ==
    IF Has(cols, "utility_missed_payments_count")
    THEN WithColumn(cols, "missed_payment_rate",
             Hundred - Clip01(Div(cols["utility_missed_payments_count"], HistoryLength(cols))))
    ELSE cols

DaysLateScore(cols) ==
    IF Has(cols, "avg_days_late_when_late")
    THEN WithColumn(cols, "days_late_score",
             Hundred - Clip01(Div(cols["avg_days_late_when_late"], 30 * Hundred)))
    ELSE cols

HistoryLengthScore(cols) ==
    IF Has(cols, "utility_history_length_months")
    THEN WithColumn(cols, "history_length_score",
             Clip01(Div(cols["utility_history_length_months"], 36 * Hundred)))
    ELSE cols

\* UtilityPaymentScorer.preprocess_features
UtilityPreprocess(cols) == HistoryLengthScore(DaysLateScore(MissedPaymentRate(cols)))

\* EducationEmploymentScorer.preprocess_features
EducationPreprocess(cols) ==
    IF Has(cols, "employment_years")
    THEN WithColumn(cols, "employment_years_score",
             Clip01(Div(cols["employment_years"], 20 * Hundred)))
    ELSE cols

\* preprocess_features: an empty frame when the row has no column of the category
preprocess_features(category, data) ==
    CASE category = "transaction"          -> TransactionPreprocess(CategoryColumns(category, data))
      [] category = "utility_payment"      -> UtilityPreprocess(CategoryColumns(category, data))
      [] category = "education_employment" -> EducationPreprocess(CategoryColumns(category, data))
      [] OTHER                             -> CategoryColumns(category, data)

\* min(value, cap) / cap
Capped(value, cap) == Div(Min(value, cap * Hundred), cap * Hundred)

\* np.log1p(min(value, 5000)) / np.log1p(5000), at the two ends of the range
LogShare(value) ==
    CASE value = 0               -> 0
      [] value >= 5000 * Hundred -> Hundred

\* DigitalFootprintScorer.score: the normalisation of a feature's value
DigitalValue(feature, value) ==
    CASE feature = "email_domain_age_days"      -> Capped(value, 3650)
      [] feature = "email_account_age_days"     -> Capped(value, 1825)
      [] feature = "device_age_months"          -> Hundred - Capped(value, 60)
      [] feature = "social_media_accounts"      -> Capped(value, 5)
      [] feature = "social_media_followers"     -> LogShare(value)
      [] feature = "digital_subscription_count" -> Capped(value, 10)
      [] OTHER                                  -> value

\* the transformed column a scorer falls back on when the feature is no column
Fallback(category, feature) ==
    CASE category = "utility_payment" /\ feature = "utility_missed_payments_count"
            -> "missed_payment_rate"
      [] category = "utility_payment" /\ feature = "avg_days_late_when_late"
            -> "days_late_score"
      [] category = "utility_payment" /\ feature = "utility_history_length_months"
            -> "history_length_score"
      [] category = "education_employment" /\ feature = "employment_years"
            -> "employment_years_score"
      [] OTHER -> feature

\* score_features[feature]: 0.0 for a feature the frame does not have
FeatureValue(category, feature, cols) ==
    IF Has(cols, feature)
    THEN (IF category = "digital_footprint" THEN DigitalValue(feature, cols[feature])
          ELSE cols[feature])
    ELSE IF Has(cols, Fallback(category, feature)) THEN cols[Fallback(category, feature)]
    ELSE 0

\* weighted_score and total_weight over score_features
WeightedScore(scorer, cols) ==
    Sum([f \in DOMAIN scorer.weights |->
            FeatureValue(scorer.category, f, cols) * scorer.weights[f]],
        DOMAIN scorer.weights)

TotalWeight(weights) == Sum(weights, DOMAIN weights)

\* normalized_score * 100 of the fixed-weight branch
WeightedFinalScore(weighted_score, total_weight) ==
    IF total_weight > 0 THEN (Hundred * weighted_score) \div total_weight ELSE NeutralScore

\* np.clip(self.model.predict(X)[0], 0, 1) * 100
ModelFinalScore(model) == Clip01(model.prediction) * Hundred

ScoreFrame_ModelFirst(scorer, cols) ==
    IF scorer.model # None THEN ModelFinalScore(scorer.model)
    ELSE IF DOMAIN cols = {} THEN NeutralScore
    ELSE WeightedFinalScore(WeightedScore(scorer, cols), TotalWeight(scorer.weights))

\* score on the preprocessed frame
ScoreFrame(scorer, cols) ==
    IF DOMAIN cols = {} THEN NeutralScore
    ELSE IF scorer.model # None THEN ModelFinalScore(scorer.model)
    ELSE WeightedFinalScore(WeightedScore(scorer, cols), TotalWeight(scorer.weights))

\* score(data) of the four scorers
score(scorer, data) == ScoreFrame(scorer, preprocess_features(scorer.category, data))

\* scaler.transform / model.predict reject a frame whose columns are not
\* those the model was trained on
ScoreRaises(scorer, data) ==
    /\ scorer.model # None
    /\ DOMAIN preprocess_features(scorer.category, data) # {}
    /\ DOMAIN preprocess_features(scorer.category, data) # scorer.model.columns

\* train of TransactionDataScorer / EducationEmploymentScorer: nothing is
\* trained on a row without the category's columns
TrainedModel(category, data, prediction) ==
    [columns |-> DOMAIN preprocess_features(category, data), prediction |-> prediction]

train_scorer(scorer, data, prediction) ==
    IF DOMAIN preprocess_features(scorer.category, data) = {} THEN scorer
    ELSE [scorer EXCEPT !.model = TrainedModel(scorer.category, data, prediction)]

----------------------------------------------------------------------------
(* scoring.py: AlternativeDataScoreAggregator                               *)

\* the default category weights of __init__
DefaultCategoryWeights ==
    "digital_footprint" :> 20 @@ "transaction" :> 35 @@
    "utility_payment" :> 25 @@ "education_employment" :> 20

\* __init__ with the given "weights" and scorer weights: the four default scorers
Aggregator(weights, scorer_weights) ==
    [ weights |-> weights,
      scorers |-> [c \in Categories |-> Scorer(c, scorer_weights[c], None)] ]

\* calculate_scores: 50.0 for a scorer that raises
calculate_scores(self, data) ==
    [c \in DOMAIN self.scorers |->
        IF ScoreRaises(self.scorers[c], data) THEN NeutralScore
        ELSE score(self.scorers[c], data)]

\* self.weights.get(name, 0.0)
WeightOf(self, name) == IF name \in DOMAIN self.weights THEN self.weights[name] ELSE 0

\* the two sums of the loop over individual_scores
AggregateWeighted(self, individual_scores) ==
    Sum([n \in DOMAIN individual_scores |-> individual_scores[n] * WeightOf(self, n)],
        DOMAIN individual_scores)

AggregateTotal(self, individual_scores) ==
    Sum([n \in DOMAIN individual_scores |-> WeightOf(self, n)], DOMAIN individual_scores)

\* a quotient, kept as the fraction num / den
Fraction(num, den) == [num |-> num, den |-> den]

AggregateOf_Unguarded(weighted_score, total_weight) == Fraction(weighted_score, total_weight)

AggregateOf(weighted_score, total_weight) ==
    IF total_weight > 0 THEN Fraction(weighted_score, total_weight)
    ELSE Fraction(NeutralScore, 1)

NoScores == [n \in {} |-> 0]

Aggregated(self, individual_scores) ==
    [ aggregate_score   |-> AggregateOf(AggregateWeighted(self, individual_scores),
                                        AggregateTotal(self, individual_scores)),
      individual_scores |-> individual_scores ]

\* aggregate_score(individual_scores, data); None stands for an argument not given
aggregate_score(self, individual_scores, data) ==
    IF individual_scores # None THEN Aggregated(self, individual_scores)
    ELSE IF data = None
         THEN [aggregate_score |-> Fraction(NeutralScore, 1), individual_scores |-> NoScores]
    ELSE Aggregated(self, calculate_scores(self, data))

----------------------------------------------------------------------------
(* The scorers and the aggregator as a state machine                        *)

\* rows: per category either no column or one of a few sets of columns,
\* values in hundredths and in the ranges data_sources.py generates
Profiles(category) ==
    CASE category = "digital_footprint" ->
            { "email_domain_age_days" :> 365000 @@ "has_professional_email" :> 100 @@
              "device_price_category_score" :> 90 }
      [] category = "transaction" ->
            { "late_payment_frequency" :> 10 @@ "cash_buffer_months" :> 600,
              "income_stability" :> 90 @@ "expense_to_income_ratio" :> 70 @@
              "debt_service_ratio" :> 20 @@ "savings_rate" :> 10 @@
              "late_payment_frequency" :> 0 @@ "overdraft_frequency" :> 0 @@
              "cash_buffer_months" :> 600 @@ "recurring_bill_payment_consistency" :> 95 }
      [] category = "utility_payment" ->
            { "overall_utility_payment_consistency" :> 90 @@
              "utility_missed_payments_count" :> 300 @@
              "utility_history_length_months" :> 2400 }
      [] category = "education_employment" ->
            { "employment_years" :> 1000 @@ "job_stability_score" :> 80 }

RowsOver(S) ==
    {r \in [S -> UNION {Profiles(c) : c \in Categories}] : \A c \in S : r[c] \in Profiles(c)}

Rows == UNION {RowsOver(S) : S \in SUBSET Categories}

\* the rows a scorer is trained on: those with its category's columns only, or none
TrainingRows(category) == RowsOver({category}) \cup RowsOver({})

\* what a trained model predicts, in hundredths: below, inside and above [0, 1]
Predictions == {0 - 20, 50, 130}

Trainable == {"transaction", "education_employment"}

\* the "weights" a scorer's config gives: the defaults, or every weight zero
ScorerWeightConfigs ==
    { [c \in Categories |-> DefaultWeights(c)],
      [c \in Categories |-> [f \in DOMAIN DefaultWeights(c) |-> 0]] }

\* the "weights" the aggregator's config gives
CategoryWeightConfigs ==
    { DefaultCategoryWeights,
      [c \in Categories |-> 0],
      "transaction" :> 100,
      "digital_footprint" :> 100 @@ "transaction" :> (0 - 50) }

\* individual_scores a caller passes to aggregate_score
ScoreDicts ==
    { "digital_footprint" :> 6000 @@ "transaction" :> 8000 @@
      "utility_payment" :> 4000 @@ "education_employment" :> 10000,
      "transaction" :> 8000,
      "custom" :> 9000 @@ "transaction" :> 4000,
      NoScores }

ScoringInit ==
    /\ ModelIdle
    /\ conversion = None
    /\ RiskIdle /\ ComplianceIdle /\ LendingIdle
    /\ aggregator \in {Aggregator(w, sw) : w \in CategoryWeightConfigs, sw \in ScorerWeightConfigs}
    /\ scoring = None

\* scorer.train(data, target) on one of the aggregator's scorers
TrainScorer(category, data, prediction) ==
    /\ aggregator' = [aggregator EXCEPT
            !.scorers[category] = train_scorer(@, data, prediction)]
    /\ scoring' = [op |-> "train", category |-> category, data |-> data]
    /\ UNCHANGED <<vars, conversion, riskVars, complianceVars, lendingVars>>

\* scorer.score(data) on one of the aggregator's scorers
Score(category, data) ==
    /\ scoring' = [ op       |-> "score",
                    category |-> category,
                    data     |-> data,
                    raised   |-> ScoreRaises(aggregator.scorers[category], data),
                    score    |-> IF ScoreRaises(aggregator.scorers[category], data) THEN 0
                                 ELSE score(aggregator.scorers[category], data) ]
    /\ UNCHANGED <<vars, conversion, aggregator, riskVars, complianceVars, lendingVars>>

\* aggregator.aggregate_score(individual_scores, data)
AggregateScore(individual_scores, data) ==
    /\ scoring' = [ op     |-> "aggregate_score",
                    given  |-> individual_scores,
                    data   |-> data,
                    result |-> aggregate_score(aggregator, individual_scores, data) ]
    /\ UNCHANGED <<vars, conversion, aggregator, riskVars, complianceVars, lendingVars>>

ScoringNext ==
    \/ \E c \in Trainable, p \in Predictions :
          \E data \in TrainingRows(c) : TrainScorer(c, data, p)
    \/ \E c \in Categories, data \in Rows : Score(c, data)
    \/ \E individual_scores \in ScoreDicts : AggregateScore(individual_scores, None)
    \/ \E data \in Rows \cup {None} : AggregateScore(None, data)

ScoringSpec == ScoringInit /\ [][ScoringNext]_<<vars, others>>

----------------------------------------------------------------------------
(* Claims about the scorers and the aggregator                              *)

\* the last call was aggregate_score / score
IsAggregate == scoring # None /\ scoring.op = "aggregate_score"

IsScore == scoring # None /\ scoring.op = "score"

\* aggregate_score was called with a row and computed the sub-scores itself
FromRow == IsAggregate /\ scoring.given = None /\ scoring.data # None

\* the categories of the returned sub-scores that have a registered weight
Registered == DOMAIN scoring.result.individual_scores \cap DOMAIN aggregator.weights

\* sum of weight_i * score_i and sum of weight_i over the categories in S
WeightedOver(S) ==
    Sum([c \in S |-> aggregator.weights[c] * scoring.result.individual_scores[c]], S)

WeightOver(S) == Sum([c \in S |-> aggregator.weights[c]], S)

\* the returned aggregate is the quotient num / den (den positive)
IsQuotient(num, den) ==
    scoring.result.aggregate_score.num * den = num * scoring.result.aggregate_score.den

IsNeutral == scoring.result.aggregate_score = Fraction(NeutralScore, 1)

\* C16: aggregate_score returns sum(weight_i * score_i) / sum(weight_i) over the
\* categories with a registered weight, and exactly 50.0 when that total weight
\* is zero
C16_AggregateIsWeightedMean ==
    IsAggregate =>
        IF WeightOver(Registered) = 0 THEN IsNeutral
        ELSE IsQuotient(WeightedOver(Registered), WeightOver(Registered))

\* C16 (amended): the quotient is returned when the total weight is positive,
\* and exactly 50.0 when it is zero or negative
C16_AggregateIsGuardedMean ==
    IsAggregate =>
        IF WeightOver(Registered) > 0
        THEN IsQuotient(WeightedOver(Registered), WeightOver(Registered))
        ELSE IsNeutral

\* a row was aggregated over several weighted categories, and another call
\* fell back on 50.0
C16_Witness ==
    /\ FromRow
    /\ WeightOver(Registered) > 0
    /\ Cardinality({c \in Registered : aggregator.weights[c] > 0}) > 1
    /\ ~IsNeutral

\* C17: for any input row and any weight configuration the aggregate that
\* aggregate_score returns is between 0 and 100
C17_AggregateBounded ==
    FromRow =>
        /\ 0 <= scoring.result.aggregate_score.num
        /\ scoring.result.aggregate_score.num
               <= Hundred * Hundred * scoring.result.aggregate_score.den

\* C18: for every category scorer and every input row, the sub-score that
\* score returns is in [0, 100]
C18_SubScoreBounded ==
    (IsScore /\ ~scoring.raised) =>
        (0 <= scoring.score /\ scoring.score <= Hundred * Hundred)

\* the categories the row has data for
WithData == {c \in Registered : c \in DOMAIN scoring.data}

\* C19: a category the row has no data for contributes neither to the weighted
\* sum nor to the total weight: the aggregate is computed from the remaining
\* categories only
C19_AbsentCategoryLeftOut ==
    (FromRow /\ WeightOver(WithData) > 0) =>
        IsQuotient(WeightedOver(WithData), WeightOver(WithData))

\* the scorer and the preprocessed frame of the last score call
Scored == aggregator.scorers[scoring.category]

ScoredFrame == preprocess_features(scoring.category, scoring.data)

\* the last score call took the fixed-weight branch
FixedWeightMode == IsScore /\ Scored.model = None /\ DOMAIN ScoredFrame # {}

\* the weighted features that are columns of the preprocessed frame
PresentFeatures == DOMAIN Scored.weights \cap DOMAIN ScoredFrame

PresentWeighted ==
    Sum([f \in PresentFeatures |->
            FeatureValue(scoring.category, f, ScoredFrame) * Scored.weights[f]],
        PresentFeatures)

PresentWeight == Sum([f \in PresentFeatures |-> Scored.weights[f]], PresentFeatures)

\* C20: in fixed-weight mode the result is 100 times the weighted sum of the
\* feature values divided by the sum of weights, both over the weighted
\* features present in the preprocessed row
C20_RenormalisedByPresentWeights ==
    (FixedWeightMode /\ PresentWeight > 0) =>
        scoring.score = (Hundred * PresentWeighted) \div PresentWeight

\* the inputs of a category where a lower value is the better one
LowerIsBetter(category) ==
    CASE category = "transaction"     -> {"late_payment_frequency", "overdraft_frequency"}
      [] category = "utility_payment" -> {"utility_missed_payments_count",
                                          "avg_days_late_when_late"}
      [] OTHER                        -> {}

\* the inverted value preprocess_features produces for a lower-is-better input:
\* 1 - value in place (transaction), a column of its own (utility_payment)
InvertedValue(category, feature, raw, cols) ==
    IF category = "transaction" THEN Hundred - raw[feature]
    ELSE cols[Fallback(category, feature)]

\* C21: for each lower-is-better input of the row that has a weight, the value
\* that enters the weighted combination is the inverted value of preprocess
C21_InvertedValueIsScored ==
    FixedWeightMode =>
        \A f \in LowerIsBetter(scoring.category) \cap DOMAIN Scored.weights :
            f \in DOMAIN CategoryColumns(scoring.category, scoring.data) =>
                FeatureValue(scoring.category, f, ScoredFrame)
                    = InvertedValue(scoring.category, f,
                                    CategoryColumns(scoring.category, scoring.data),
                                    ScoredFrame)

\* C22: when the preprocessed frame is empty, score returns exactly 50.0 and
\* does not raise
C22_EmptyFrameIsNeutral ==
    (IsScore /\ DOMAIN ScoredFrame = {}) =>
        (~scoring.raised /\ scoring.score = NeutralScore)

\* a trained scorer scored a row without its columns
C22_Witness ==
    /\ IsScore
    /\ DOMAIN ScoredFrame = {}
    /\ Scored.model # None
    /\ ModelFinalScore(Scored.model) # NeutralScore
    /\ scoring.score = NeutralScore

----------------------------------------------------------------------------
(* risk_model.py / risk_assessment.py: LoanRiskModel                        *)

RiskInstances == {1, 2}

RiskPaths == {"risk_a.joblib", "risk_b.joblib"}

\* the data a LoanRiskModel is trained on, and where a train call can fail:
\* in grid_search.fit (before self.model is assigned) or in the evaluation on
\* the validation set (after it)
RiskData == {"loans_1", "loans_2"}

TrainFailures == {"none", "fit", "evaluate"}

\* the estimator grid_search leaves for the data
RiskEstimator(d) == [trained_on |-> d]

\* what a call leaves: the instance's model, the file and how the call ended
RiskCall(model, file, outcome) == [model |-> model, file |-> file, outcome |-> outcome]

\* train(X, y)
risk_train(model, d, failure) ==
    CASE failure = "fit"      -> RiskCall(model, None, "ValueError")
      [] failure = "evaluate" -> RiskCall(RiskEstimator(d), None, "ValueError")
      [] OTHER                -> RiskCall(RiskEstimator(d), None, "returned")

\* predict_risk_score(loan_data)
predict_risk_score(model) ==
    IF model = None THEN RiskCall(model, None, "ValueError")
    ELSE RiskCall(model, None, "returned")

\* save_model(filepath): the file is written only for a trained model
risk_save_model(model, file) ==
    IF model = None THEN RiskCall(model, file, "ValueError")
    ELSE RiskCall(model, model, "returned")

\* load_model(filepath): joblib.load raises for a path without a file
risk_load_model(model, file) ==
    IF file = None THEN RiskCall(model, file, "FileNotFoundError")
    ELSE RiskCall(file, file, "returned")

HeldBy_AllInstances(held, i, model) == [j \in DOMAIN held |-> model]

\* self.model = ... : the attribute of the one instance
HeldBy(held, i, model) == [held EXCEPT ![i] = model]

\* the record of a call, with the instances train or load_model was ever called on
RiskLast(op, i, outcome, touched) ==
    [op |-> op, i |-> i, outcome |-> outcome, touched |-> touched]

RiskInit ==
    /\ ModelIdle
    /\ conversion = None /\ aggregator = None /\ scoring = None
    /\ ComplianceIdle /\ LendingIdle
    /\ risk_models = [i \in RiskInstances |-> None]
    /\ risk_files = [p \in RiskPaths |-> None]
    /\ risk_last = RiskLast("init", 0, "returned", {})

RiskRest == <<vars, conversion, aggregator, scoring, complianceVars, lendingVars>>

RiskTrain(i, d, failure) ==
    \E c \in {risk_train(risk_models[i], d, failure)} :
        /\ risk_models' = HeldBy(risk_models, i, c.model)
        /\ risk_last' = RiskLast("train", i, c.outcome, risk_last.touched \cup {i})
        /\ UNCHANGED <<risk_files, RiskRest>>

RiskPredict(i) ==
    /\ risk_last' = RiskLast("predict_risk_score", i,
                             predict_risk_score(risk_models[i]).outcome, risk_last.touched)
    /\ UNCHANGED <<risk_models, risk_files, RiskRest>>

RiskSave(i, p) ==
    \E c \in {risk_save_model(risk_models[i], risk_files[p])} :
        /\ risk_files' = [risk_files EXCEPT ![p] = c.file]
        /\ risk_last' = RiskLast("save_model", i, c.outcome, risk_last.touched)
        /\ UNCHANGED <<risk_models, RiskRest>>

RiskLoad(i, p) ==
    \E c \in {risk_load_model(risk_models[i], risk_files[p])} :
        /\ risk_models' = HeldBy(risk_models, i, c.model)
        /\ risk_last' = RiskLast("load_model", i, c.outcome, risk_last.touched \cup {i})
        /\ UNCHANGED <<risk_files, RiskRest>>

RiskNext ==
    \/ \E i \in RiskInstances, d \in RiskData, failure \in TrainFailures : RiskTrain(i, d, failure)
    \/ \E i \in RiskInstances : RiskPredict(i)
    \/ \E i \in RiskInstances, p \in RiskPaths : RiskSave(i, p)
    \/ \E i \in RiskInstances, p \in RiskPaths : RiskLoad(i, p)

RiskSpec == RiskInit /\ [][RiskNext]_<<vars, others>>

\* C25: on a LoanRiskModel that was never trained or loaded, predict_risk_score
\* and save_model raise ValueError, whatever happened to the other instances
C25_UntrainedRiskModelRaises ==
    /\ \A i \in RiskInstances \ risk_last.touched :
          /\ predict_risk_score(risk_models[i]).outcome = "ValueError"
          /\ \A p \in RiskPaths :
                risk_save_model(risk_models[i], risk_files[p]).outcome = "ValueError"
    /\ (risk_last.op \in {"predict_risk_score", "save_model"}
            /\ risk_last.i \notin risk_last.touched)
          => risk_last.outcome = "ValueError"

\* an untouched instance was asked for a score while another one held a model
C25_Witness ==
    /\ risk_last.op = "predict_risk_score"
    /\ risk_last.i \notin risk_last.touched
    /\ risk_last.outcome = "ValueError"
    /\ \E j \in RiskInstances : risk_models[j] # None

----------------------------------------------------------------------------
(* compliance.py: ComplianceFramework                                       *)

\* audit records kept at most
MaxAudit == 16

\* the checks _init_default_checks registers
DefaultChecks ==
    {"equal_opportunity", "fair_credit_reporting", "truth_in_lending",
     "anti_money_laundering", "model_risk_governance", "data_privacy", "udaap"}

CheckNames == DefaultChecks \cup {"custom_a", "custom_b"}

\* a data envelope: whether json.dumps can serialise it (a DataFrame among the
\* values cannot be), and what the checks make of it
Envelopes == [serialisable : BOOLEAN, content : {"compliant", "violation", "malformed"}]

\* the data_id argument; None when not given
DataIds == {None, [id |-> "APP-1"]}

\* check.check(data) of the named check
CheckOutcome(check_name, data) ==
    CASE data.content = "violation" /\ check_name = "truth_in_lending" -> "fails"
      [] data.content = "malformed" /\ check_name = "equal_opportunity" -> "raises"
      [] OTHER -> "passes"

\* the (is_compliant, message) tuple of a check
CheckResult(is_compliant, message) == [is_compliant |-> is_compliant, message |-> message]

\* hashlib.md5(json.dumps(data, sort_keys=True).encode()): TypeError for a value
\* json cannot serialise
DumpRaises(data, data_id) == data_id = None /\ ~data.serialisable

\* what a framework call leaves: how it ended, its result, the audit records added
Checked(outcome, results, logged) == [outcome |-> outcome, results |-> results, logged |-> logged]

\* run_check(check_name, data, data_id)
run_check(self, check_name, data, data_id) ==
    IF check_name \notin self.checks
    THEN Checked("returned", CheckResult(FALSE, "Check not found"), 0)
    ELSE IF DumpRaises(data, data_id) THEN Checked("TypeError", None, 0)
    ELSE IF CheckOutcome(check_name, data) = "raises"
         THEN Checked("returned", CheckResult(FALSE, "Error running compliance check"), 1)
    ELSE Checked("returned",
                 CheckResult(CheckOutcome(check_name, data) = "passes",
                             CheckOutcome(check_name, data)), 1)

\* run_all_checks(data, data_id)
run_all_checks(self, data, data_id) ==
    IF DumpRaises(data, data_id) THEN Checked("TypeError", None, 0)
    ELSE Checked("returned",
                 [n \in self.checks |-> run_check(self, n, data, [id |-> "given"]).results],
                 Cardinality(self.checks))

ComplianceInit ==
    /\ ModelIdle
    /\ conversion = None /\ aggregator = None /\ scoring = None
    /\ RiskIdle /\ LendingIdle
    /\ framework = [checks |-> DefaultChecks, audit_records |-> 0]
    /\ checked = None

ComplianceRest == <<vars, conversion, aggregator, scoring, riskVars, lendingVars>>

\* register_check(name, check)
RegisterCheck(name) ==
    /\ framework' = [framework EXCEPT !.checks = @ \cup {name}]
    /\ checked' = [op |-> "register_check", name |-> name]
    /\ UNCHANGED ComplianceRest

RunCheck(check_name, data, data_id) ==
    \E c \in {run_check(framework, check_name, data, data_id)} :
        /\ framework.audit_records + c.logged <= MaxAudit
        /\ framework' = [framework EXCEPT !.audit_records = @ + c.logged]
        /\ checked' = [op |-> "run_check", name |-> check_name, data |-> data,
                       data_id |-> data_id, outcome |-> c.outcome, results |-> c.results]
        /\ UNCHANGED ComplianceRest

RunAllChecks(data, data_id) ==
    \E c \in {run_all_checks(framework, data, data_id)} :
        /\ framework.audit_records + c.logged <= MaxAudit
        /\ framework' = [framework EXCEPT !.audit_records = @ + c.logged]
        /\ checked' = [op |-> "run_all_checks", data |-> data,
                       data_id |-> data_id, outcome |-> c.outcome, results |-> c.results]
        /\ UNCHANGED ComplianceRest

ComplianceNext ==
    \/ \E name \in CheckNames : RegisterCheck(name)
    \/ \E name \in CheckNames, data \in Envelopes, data_id \in DataIds :
          RunCheck(name, data, data_id)
    \/ \E data \in Envelopes, data_id \in DataIds : RunAllChecks(data, data_id)

ComplianceSpec == ComplianceInit /\ [][ComplianceNext]_<<vars, others>>

\* the last call was run_all_checks
RanAll == checked # None /\ checked.op = "run_all_checks"

\* C24: for any data envelope, run_all_checks returns exactly one result per
\* registered compliance check
C24_OneResultPerCheck ==
    RanAll => (checked.outcome = "returned" /\ DOMAIN checked.results = framework.checks)

----------------------------------------------------------------------------
(* integration.py: EnhancedLendingSystem                                    *)

\* the 50.0 _calculate_traditional_score returns for a model that raises
DefaultTraditionalScore == 50

\* training_data: which of its entries are present (a DataFrame / Series) and
\* which are None, the data they hold, and whether the enhanced model's train
\* raises on them
TrainingData ==
    [X_traditional : BOOLEAN, X_alternative : BOOLEAN, y : BOOLEAN,
     data : {"sample_1", "sample_2"}, train_raises : BOOLEAN]

\* an application: the default probability the trained model gives it (k of
\* ProbSteps), and whether the trained model's predict raises on its frame
Applications == [default_prob : {0, 90, ProbSteps}, predict_raises : BOOLEAN]

\* `X_alternative or pd.DataFrame()`: the truth value of a DataFrame is a
\* ValueError; only None falls through to the empty frame
AlternativeOrEmpty(training_data) ==
    IF training_data.X_alternative THEN [raises |-> TRUE, with_alternative |-> FALSE]
    ELSE [raises |-> FALSE, with_alternative |-> FALSE]

\* the model ModelIntegrator.train leaves in enhanced_model
IntegratedModel(training_data, with_alternative) ==
    [trained_on |-> training_data.data, with_alternative |-> with_alternative]

\* what train_models leaves: the enhanced model, the saved bundle, how it ended
Trained(enhanced, bundle, outcome) == [enhanced |-> enhanced, bundle |-> bundle, outcome |-> outcome]

\* train_models(training_data)
train_models(self, training_data) ==
    IF ~training_data.X_traditional \/ ~training_data.y
    THEN Trained(self.enhanced, self.bundle, "returned")
    ELSE IF AlternativeOrEmpty(training_data).raises
    THEN Trained(self.enhanced, self.bundle, "ValueError")
    ELSE IF training_data.train_raises
    THEN Trained(self.enhanced, self.bundle, "ValueError")
    ELSE Trained(IntegratedModel(training_data, AlternativeOrEmpty(training_data).with_alternative),
                 IntegratedModel(training_data, AlternativeOrEmpty(training_data).with_alternative),
                 "returned")

\* load_models(): joblib.load of the saved bundle
load_models(self) ==
    IF self.bundle = None THEN Trained(self.enhanced, self.bundle, "FileNotFoundError")
    ELSE Trained(self.bundle, self.bundle, "returned")

\* _calculate_traditional_score: the LoanRiskModel of the system is never trained
calculate_traditional_score(self) ==
    IF predict_risk_score(self.traditional).outcome = "ValueError" THEN DefaultTraditionalScore
    ELSE self.traditional.risk_score

\* _calculate_enhanced_score: the integrator's credit score, or the traditional
\* score when ModelIntegrator.predict raises
calculate_enhanced_score(self, application) ==
    IF self.enhanced = None \/ application.predict_raises
    THEN calculate_traditional_score(self)
    ELSE calculate_credit_score(application.default_prob)

\* _determine_decision
determine_decision(credit_score) ==
    IF credit_score >= 750 THEN "Approved"
    ELSE IF credit_score >= 650 THEN "Conditionally Approved"
    ELSE IF credit_score >= 600 THEN "Manual Review Required"
    ELSE "Declined"

\* compliance_data: traditional_data and alternative_data are DataFrames
ComplianceData == [serialisable |-> FALSE, content |-> "compliant"]

\* the framework the system constructs
SystemFramework == [checks |-> DefaultChecks, audit_records |-> 0]

\* process_loan_application(application_data): is_compliant(compliance_data)
\* calls run_all_checks without a data_id
process_loan_application(self, application) ==
    [ outcome        |-> run_all_checks(SystemFramework, ComplianceData, None).outcome,
      enhanced_score |-> calculate_enhanced_score(self, application),
      decision       |-> determine_decision(calculate_enhanced_score(self, application)) ]

LendingInit ==
    /\ ModelIdle
    /\ conversion = None /\ aggregator = None /\ scoring = None
    /\ RiskIdle /\ ComplianceIdle
    /\ system = [enhanced |-> None, bundle |-> None, traditional |-> None]
    /\ processed = None

LendingRest == <<vars, conversion, aggregator, scoring, riskVars, complianceVars>>

TrainModels(training_data) ==
    \E c \in {train_models(system, training_data)} :
        /\ system' = [system EXCEPT !.enhanced = c.enhanced, !.bundle = c.bundle]
        /\ processed' = [op |-> "train_models", training_data |-> training_data,
                         outcome |-> c.outcome]
        /\ UNCHANGED LendingRest

LoadModels ==
    \E c \in {load_models(system)} :
        /\ system' = [system EXCEPT !.enhanced = c.enhanced]
        /\ processed' = [op |-> "load_models", outcome |-> c.outcome]
        /\ UNCHANGED LendingRest

\* a new EnhancedLendingSystem over the same models directory
Restart ==
    /\ system' = [system EXCEPT !.enhanced = None]
    /\ processed' = [op |-> "init", outcome |-> "returned"]
    /\ UNCHANGED LendingRest

ProcessLoanApplication(application) ==
    \E c \in {process_loan_application(system, application)} :
        /\ processed' = [op |-> "process_loan_application", application |-> application,
                         outcome |-> c.outcome, enhanced_score |-> c.enhanced_score,
                         decision |-> c.decision]
        /\ UNCHANGED <<system, LendingRest>>

LendingNext ==
    \/ \E training_data \in TrainingData : TrainModels(training_data)
    \/ LoadModels
    \/ Restart
    \/ \E application \in Applications : ProcessLoanApplication(application)

LendingSpec == LendingInit /\ [][LendingNext]_<<vars, others>>

IsProcess == processed # None /\ processed.op = "process_loan_application"

IsTrainModels == processed # None /\ processed.op = "train_models"

\* C23: process_loan_application returns a result for every application, and
\* the enhanced_score in it is between 300 and 850
C23_ProcessReturnsBoundedScore ==
    IsProcess =>
        /\ processed.outcome = "returned"
        /\ MinScore <= processed.enhanced_score
        /\ processed.enhanced_score <= MaxScore

\* C30: train_models with X_traditional, X_alternative and y all present
\* returns normally, with the integrated model trained on both frames and its
\* bundle saved
C30_TrainModelsTrainsAndSaves ==
    (IsTrainModels /\ processed.training_data.X_traditional
        /\ processed.training_data.X_alternative /\ processed.training_data.y
        /\ ~processed.training_data.train_raises) =>
            /\ processed.outcome = "returned"
            /\ system.enhanced = IntegratedModel(processed.training_data, TRUE)
            /\ system.bundle = system.enhanced

----------------------------------------------------------------------------
(* Further properties of EnhancedCreditScoringModel                         *)

\* the instances that a train call on d that returned leaves of those in S
TrainedFrom(S, d) ==
    {c.self : c \in {c \in {train(p, d, fe, m, e) :
                                p \in S, fe \in FeatureEngineering,
                                m \in MetricsOutcomes(d.y), e \in BOOLEAN} :
                        c.outcome = "returned"}}

\* self is what one or two train calls that returned, the last one on d, leave
\* of a new instance
AfterTrains(self, d) ==
    self \in TrainedFrom({NewModel(self.model_type)} \cup
                         UNION {TrainedFrom({NewModel(self.model_type)}, d0) : d0 \in TrainSets},
                         d)

\* C26: after successful train calls, predict on a dataset with the columns of
\* the training data, of any number of rows, hands the fitted plan a frame
\* with every column the plan requires
C26_PredictFrameHasPlanColumns ==
    \A d \in TrainSets :
        (/\ IsPredictCall
         /\ last.before.model # None
         /\ last.before.model.data = d.id
         /\ ById(last.data).cols = d.cols
         /\ AfterTrains(last.before, d)) =>
            /\ last.error # "KeyError"
            /\ FeatureNames(last.before.model) \subseteq Range(last.frame)

\* the explainer built for the model of a bundle file: the one its saver held
\* if that one was built on the saved model, else none
BundleExplainer(file) ==
    IF file.saver.explainer # None /\ file.saver.explainer.model = file.data.model
    THEN file.saver.explainer
    ELSE None

\* C27: the explainer an instance holds after a load_model that restored a
\* bundle is the one built for the model in that bundle, or none when that
\* model was saved without one
C27_LoadedExplainerMatchesBundle ==
    (last.op = "load_model" /\ last.result # None) =>
        models[last.i].explainer = BundleExplainer(last.file_was)

\* C28: a train call that raises leaves the instance as it was before the call
C28_FailedTrainLeavesInstance ==
    (last.op = "train" /\ last.outcome = "raised") => models[last.i] = last.before

\* C29: after a train that returned, every entry of the feature-importance map
\* is an entry of the model just trained
C29_ImportanceOfCurrentModelOnly ==
    (last.op = "train" /\ last.outcome = "returned") =>
        \A e \in models[last.i].feature_importance :
            /\ HasFeatureImportances(models[last.i].model.model_type)
            /\ e.feature \in FeatureNames(models[last.i].model)
            /\ e.importance = Importance(models[last.i].model)

====
